---- MODULE Spec2Model ----
(***************************************************************************)
(* Model of src/main.py, the Streamlit page of the GitHub Codebase         *)
(* Chatbot.  Every user interaction re-executes the script top to bottom   *)
(* against the persistent st.session_state; one action of this module is   *)
(* one such script run.                                                    *)
(*                                                                         *)
(* A Python string is a sequence of tokens: single characters where the    *)
(* code inspects characters (URLs, paths), whole literals elsewhere.       *)
(* Python's None is the one-token sequence None, which no string of the    *)
(* model equals.                                                           *)
(***************************************************************************)
EXTENDS Naturals, Integers, Sequences, FiniteSets, TLC

VARIABLES
    repo_owner, repo_name, repo_files, selected_file_path, default_branch,
    code_content, current_file_url_display, repo_code_full, messages,
    select_single_file_sb,   \* widget state of the file selector
    gemini_api_key,          \* os.getenv("GEMINI_API_KEY"), fixed per process
    msg_ctx,                 \* the contexts held when the messages were appended
    act,                     \* the interaction that triggered the last run
    call                     \* a helper function called on its own:
                             \* [fn, arg, ret, done]

vars == <<repo_owner, repo_name, repo_files, selected_file_path,
          default_branch, code_content, current_file_url_display,
          repo_code_full, messages, select_single_file_sb, gemini_api_key,
          msg_ctx, act, call>>

\* ---------------------------------------------------------------- bounds
\* entries in a tree-listing response
MaxTree == 2
\* questions asked before the transcript is cleared
MaxTurns == 1
\* chunks of one generation stream
MaxChunks == 1
\* entries in a tree listing handed to get_repo_files on its own
MaxEntries == 3
\* chunks of a generation stream whose display is followed chunk by chunk
MaxStream == 3

\* ------------------------------------------------------- Python values
None == <<"None">>

Truthy(x) == x # None /\ x # <<>>

RECURSIVE Join(_)
Join(parts) ==
    IF parts = <<>> THEN <<>> ELSE Head(parts) \o Join(Tail(parts))

\* s.replace(' ', '%20')
RECURSIVE replace_space(_)
replace_space(s) ==
    IF s = <<>> THEN <<>>
    ELSE (IF Head(s) = " " THEN <<"%20">> ELSE <<Head(s)>>)
         \o replace_space(Tail(s))

HasPrefix(s, p) == Len(s) >= Len(p) /\ SubSeq(s, 1, Len(p)) = p

\* index of the first occurrence of pat in s, 0 when there is none
FirstIndexOf(s, pat) ==
    LET hits == {i \in 1..Len(s) :
                    i + Len(pat) - 1 <= Len(s)
                    /\ SubSeq(s, i, i + Len(pat) - 1) = pat}
    IN IF hits = {} THEN 0 ELSE CHOOSE i \in hits : \A j \in hits : i <= j

\* index of the last occurrence of character c in s, 0 when there is none
LastIndexOf(s, c) ==
    LET hits == {i \in 1..Len(s) : s[i] = c}
    IN IF hits = {} THEN 0 ELSE CHOOSE i \in hits : \A j \in hits : i >= j

\* s.split(pat)[0]
SplitFirst(s, pat) ==
    LET i == FirstIndexOf(s, pat)
    IN IF i = 0 THEN s ELSE SubSeq(s, 1, i - 1)

\* the longest prefix of s matching [^/]+ (or [^/]*)
NonSlashRun(s) ==
    LET i == FirstIndexOf(s, <<"/">>)
    IN IF i = 0 THEN s ELSE SubSeq(s, 1, i - 1)

\* --------------------------------------------------------- helper functions
GITHUB_PREFIX ==
    <<"h","t","t","p","s",":","/","/","g","i","t","h","u","b",".","c","o","m","/">>

DOT_GIT == <<".","g","i","t">>

parse_github_url(url) ==
    IF ~HasPrefix(url, GITHUB_PREFIX) THEN <<None, None>>
    ELSE LET rest == SubSeq(url, Len(GITHUB_PREFIX) + 1, Len(url))
             g1 == NonSlashRun(rest)
             after == SubSeq(rest, Len(g1) + 2, Len(rest))
             g2 == NonSlashRun(after)
         IN IF Len(g1) >= 1 /\ Len(rest) > Len(g1) /\ Len(g2) >= 1
            THEN <<g1, SplitFirst(g2, DOT_GIT)>>
            ELSE <<None, None>>

\* line 28 without the default of .get: a body without the field gives None
get_repo_default_branch_no_fallback(resp) ==
    IF ~resp.ok THEN None
    ELSE IF "default_branch" \in DOMAIN resp.json
         THEN resp.json.default_branch
         ELSE None

\* a response is [ok, json]: ok is FALSE for a transport error, a non-2xx
\* status or an undecodable body
get_repo_default_branch(resp) ==
    IF ~resp.ok THEN None
    ELSE IF "default_branch" \in DOMAIN resp.json
         THEN resp.json.default_branch
         ELSE <<"main">>

IsBlob(item) == item.type = "blob"

\* item["type"] raises KeyError for some entry of the listing
RaisesKeyError(tree) == \E i \in 1..Len(tree) : "type" \notin DOMAIN tree[i]

\* the comprehension of line 44 testing for "tree" entries instead
get_repo_files_keeps_trees(resp) ==
    IF ~resp.ok THEN [ok |-> FALSE, files |-> <<>>]
    ELSE LET tree == IF "tree" \in DOMAIN resp.json
                     THEN resp.json.tree ELSE <<>>
             IsTree(item) == item.type = "tree"
         IN IF RaisesKeyError(tree) THEN [ok |-> FALSE, files |-> <<>>]
            ELSE [ok |-> TRUE, files |-> SelectSeq(tree, IsTree)]

\* the return value is [ok, files]: ok = FALSE stands for None
get_repo_files(resp) ==
    IF ~resp.ok THEN [ok |-> FALSE, files |-> <<>>]
    ELSE LET tree == IF "tree" \in DOMAIN resp.json
                     THEN resp.json.tree ELSE <<>>
         IN IF RaisesKeyError(tree) THEN [ok |-> FALSE, files |-> <<>>]
            ELSE [ok |-> TRUE, files |-> SelectSeq(tree, IsBlob)]

\* a raw-content response is [ok, text]
fetch_github_code(resp) == IF resp.ok THEN resp.text ELSE None

\* os.path.splitext(p)[-1]
splitext_ext(p) ==
    LET sep == LastIndexOf(p, "/")
        dot == LastIndexOf(p, ".")
    IN IF dot > sep /\ \E k \in (sep + 1)..(dot - 1) : p[k] # "."
       THEN SubSeq(p, dot, Len(p))
       ELSE <<>>

\* s.lstrip('.')
RECURSIVE lstrip_dot(_)
lstrip_dot(s) ==
    IF s # <<>> /\ Head(s) = "." THEN lstrip_dot(Tail(s)) ELSE s

get_file_extension(filename_or_url) ==
    lstrip_dot(splitext_ext(SplitFirst(filename_or_url, <<"?">>)))

\* ------------------------------------------------------------ session state
default_values ==
    [repo_owner |-> None,
     repo_name |-> None,
     repo_files |-> <<>>,
     selected_file_path |-> None,
     default_branch |-> None,
     code_content |-> None,
     current_file_url_display |-> None,
     repo_code_full |-> None,
     messages |-> <<>>]

SessionKeys == DOMAIN default_values

\* the state a script run works on: st.session_state plus what the run has
\* emitted so far: the HTTP requests it issued (requests), the status
\* elements it displayed (shown) and its placeholder.markdown calls
\* (placeholder_log)
Run ==
    [repo_owner |-> repo_owner,
     repo_name |-> repo_name,
     repo_files |-> repo_files,
     selected_file_path |-> selected_file_path,
     default_branch |-> default_branch,
     code_content |-> code_content,
     current_file_url_display |-> current_file_url_display,
     repo_code_full |-> repo_code_full,
     messages |-> messages,
     msg_ctx |-> msg_ctx,
     requests |-> <<>>,
     shown |-> <<>>,
     placeholder_log |-> <<>>]

Session(r) == [k \in SessionKeys |-> r[k]]

Show(r, what) == [r EXCEPT !.shown = Append(@, what)]

\* a request and its outcome; text is the body of a raw-content response
Request(r, url, ok, text) ==
    [r EXCEPT !.requests =
        Append(@, [url |-> url, ok |-> ok, text |-> text])]

\* the context a question is asked about
Context(r) ==
    [repo_owner |-> r.repo_owner,
     repo_name |-> r.repo_name,
     selected_file_path |-> r.selected_file_path,
     code_content |-> r.code_content,
     repo_code_full |-> r.repo_code_full]

ClearMessages(r) == [r EXCEPT !.messages = <<>>, !.msg_ctx = {}]

\* ------------------------------------------------------------------ URLs
MetaUrl(owner, repo) ==
    <<"https://api.github.com/repos/">> \o owner \o <<"/">> \o repo

TreeUrl(owner, repo, branch) ==
    MetaUrl(owner, repo) \o <<"/git/trees/">> \o branch \o <<"?recursive=1">>

RawUrl(r, path) ==
    <<"https://raw.githubusercontent.com/">> \o r.repo_owner \o <<"/">>
    \o r.repo_name \o <<"/">> \o r.default_branch \o <<"/">>
    \o replace_space(path)

DisplayUrl(r, path) ==
    <<"https://github.com/">> \o r.repo_owner \o <<"/">> \o r.repo_name
    \o <<"/blob/">> \o r.default_branch \o <<"/">> \o replace_space(path)

\* --------------------------------------------- "Load Repository Contents"
LoadRepoFiles(r, owner, repo, branch, tree) ==
    LET r1 == Request([r EXCEPT !.default_branch = branch],
                      TreeUrl(owner, repo, branch), tree.ok, <<>>)
        files == get_repo_files(tree)
    IN IF files.ok
       THEN Show(ClearMessages(
                [r1 EXCEPT !.repo_files = files.files,
                           !.selected_file_path = None,
                           !.code_content = None,
                           !.repo_code_full = None]), "success: files found")
       ELSE Show(Show(r1, "error: fetching files"),
                 "error: could not retrieve files")

LoadRepoBranch(r, owner, repo, meta, tree) ==
    LET r1 == Request([r EXCEPT !.repo_owner = owner, !.repo_name = repo],
                      MetaUrl(owner, repo), meta.ok, <<>>)
        branch == get_repo_default_branch(meta)
        r2 == IF meta.ok THEN r1 ELSE Show(r1, "error: fetching branch")
    IN IF Truthy(branch)
       THEN LoadRepoFiles(r2, owner, repo, branch, tree)
       ELSE Show(r2, "error: could not determine the default branch")

\* the handler with line 110 testing the owner only
load_repo_button_owner_only(r, repo_url_input, meta, tree) ==
    IF repo_url_input = <<>>
    THEN Show(r, "warning: enter a repository URL")
    ELSE LET parsed == parse_github_url(repo_url_input)
             owner == parsed[1]
             repo == parsed[2]
         IN IF Truthy(owner)
            THEN LoadRepoBranch(r, owner, repo, meta, tree)
            ELSE Show(r, "error: invalid URL format")


load_repo_button(r, repo_url_input, meta, tree) ==
    IF repo_url_input = <<>>
    THEN Show(r, "warning: enter a repository URL")
    ELSE LET parsed == parse_github_url(repo_url_input)
             owner == parsed[1]
             repo == parsed[2]
         IN IF Truthy(owner) /\ Truthy(repo)
            THEN LoadRepoBranch(r, owner, repo, meta, tree)
            ELSE Show(r, "error: invalid URL format")

\* ------------------------------------ "Load Full Repository Code" button
\* <NL> is a line feed and <FENCE> a Markdown code fence
FileBlock(file_path, code) ==
    <<"<NL><NL>--- FILE: ">> \o file_path \o <<" ---<NL><FENCE>">>
    \o get_file_extension(file_path) \o <<"<NL>">> \o code \o <<"<NL><FENCE>">>

ErrorBlock(file_path) ==
    <<"<NL><NL>--- FILE: ">> \o file_path \o <<" --- (Error fetching content)">>

CodeFetched(code) == Truthy(code)

\* the loop of lines 150-162 from file i on; outcomes[i] is the response to
\* the i-th fetch; the result is [run, parts]
RECURSIVE FetchAll(_, _, _, _)
FetchAll(r, i, outcomes, full_code_parts) ==
    IF i > Len(r.repo_files) THEN [run |-> r, parts |-> full_code_parts]
    ELSE LET file_path == r.repo_files[i].path
             r1 == Request(r, RawUrl(r, file_path),
                           outcomes[i].ok, outcomes[i].text)
             r2 == IF outcomes[i].ok THEN r1
                   ELSE Show(r1, "error: fetching file content")
             code == fetch_github_code(outcomes[i])
             part == IF CodeFetched(code) THEN FileBlock(file_path, code)
                     ELSE ErrorBlock(file_path)
         IN FetchAll(r2, i + 1, outcomes, Append(full_code_parts, part))

load_full_repo_button(r, outcomes) ==
    IF r.repo_files = <<>> THEN Show(r, "warning: no files loaded")
    ELSE LET loop == FetchAll(r, 1, outcomes, <<>>)
         IN Show(ClearMessages(
                [loop.run EXCEPT !.repo_code_full = Join(loop.parts),
                                 !.code_content = None,
                                 !.selected_file_path = None]),
                 "success: full repository code")

\* ------------------------------------------------ single file selection
PLACEHOLDER == <<"-- Select a single file --">>

RECURSIVE Paths(_)
Paths(files) ==
    IF files = <<>> THEN <<>> ELSE <<Head(files).path>> \o Paths(Tail(files))

Options(files) == {PLACEHOLDER} \cup {files[i].path : i \in 1..Len(files)}

\* the value st.selectbox returns in a run that renders it over files,
\* when the widget held w after the previous run, which rendered it over
\* prev_files (not at all when prev_files is empty).  A value that is no
\* longer an option falls back to index 0; when the option list changed,
\* whether a value that is still an option survives depends on the
\* Streamlit release, hence keep.
selectbox(prev_files, files, w, keep) ==
    IF w \notin Options(files) THEN PLACEHOLDER
    ELSE IF Paths(files) # Paths(prev_files) /\ ~keep THEN PLACEHOLDER
    ELSE w

\* the handler without line 185: the full-repository context survives
select_single_file_sb_changed_keeps_full(r, selected_file, blob) ==
    LET r1 == ClearMessages(
                [r EXCEPT !.selected_file_path = selected_file,
                          !.code_content = None,
                          !.current_file_url_display =
                              DisplayUrl(r, selected_file)])
        r2 == Request(r1, RawUrl(r1, selected_file), blob.ok, blob.text)
        r3 == IF blob.ok THEN r2 ELSE Show(r2, "error: fetching file content")
        code == fetch_github_code(blob)
    IN IF CodeFetched(code)
       THEN Show([r3 EXCEPT !.code_content = code], "success: loaded")
       ELSE [Show(r3, "error: failed to load content")
                EXCEPT !.selected_file_path = None]


select_single_file_sb_changed(r, selected_file, blob) ==
    LET r1 == ClearMessages(
                [r EXCEPT !.selected_file_path = selected_file,
                          !.repo_code_full = None,
                          !.code_content = None,
                          !.current_file_url_display =
                              DisplayUrl(r, selected_file)])
        r2 == Request(r1, RawUrl(r1, selected_file), blob.ok, blob.text)
        r3 == IF blob.ok THEN r2 ELSE Show(r2, "error: fetching file content")
        code == fetch_github_code(blob)
    IN IF CodeFetched(code)
       THEN Show([r3 EXCEPT !.code_content = code], "success: loaded")
       ELSE [Show(r3, "error: failed to load content")
                EXCEPT !.selected_file_path = None]

\* the handler with line 202 missing: deselecting keeps the file's content
select_single_file_sb_handler_keeps_content(r, selected_file, blob) ==
    IF selected_file # PLACEHOLDER
    THEN IF r.selected_file_path # selected_file
         THEN select_single_file_sb_changed(r, selected_file, blob)
         ELSE r
    ELSE IF Truthy(r.selected_file_path)
         THEN [r EXCEPT !.selected_file_path = None]
         ELSE r

select_single_file_sb_handler(r, selected_file, blob) ==
    IF selected_file # PLACEHOLDER
    THEN IF r.selected_file_path # selected_file
         THEN select_single_file_sb_changed(r, selected_file, blob)
         ELSE r
    ELSE IF Truthy(r.selected_file_path)
         THEN [r EXCEPT !.selected_file_path = None, !.code_content = None]
         ELSE r

\* lines 136-202: rendered only while a file list is loaded
AnalyzeCode(r, prev_files, click_full, outcomes, w, keep, blob) ==
    IF r.repo_files = <<>> THEN r
    ELSE LET r1 == IF click_full THEN load_full_repo_button(r, outcomes)
                   ELSE r
         IN select_single_file_sb_handler(
                r1, selectbox(prev_files, r1.repo_files, w, keep), blob)

\* the widget state the run leaves behind; a widget that was not rendered
\* loses its state
WidgetAfter(r, prev_files, w, keep) ==
    IF r.repo_files = <<>> THEN PLACEHOLDER
    ELSE selectbox(prev_files, r.repo_files, w, keep)

\* ------------------------------------------------------------ chat section
\* the test of line 225 missing: a loaded repository suffices
chat_ready_without_context(r) ==
    /\ Truthy(gemini_api_key)
    /\ Truthy(r.repo_owner)

chat_ready(r) ==
    /\ Truthy(gemini_api_key)
    /\ Truthy(r.repo_owner)
    /\ (Truthy(r.code_content) \/ Truthy(r.repo_code_full))

\* lines 220-238: the status element above the chat input
ReadinessInfo(r) ==
    IF ~Truthy(gemini_api_key) THEN Show(r, "error: API key not configured")
    ELSE IF ~Truthy(r.repo_owner) THEN Show(r, "info: welcome")
    ELSE IF ~Truthy(r.code_content) /\ ~Truthy(r.repo_code_full)
         THEN Show(r, "info: select a file or load the repository")
    ELSE IF Truthy(r.code_content) /\ Truthy(r.selected_file_path)
         THEN Show(r, "info: analyzing single file")
    ELSE IF Truthy(r.repo_code_full)
         THEN Show(r, "info: analyzing full repository")
    ELSE r

AppendMessage(r, role, content) ==
    [r EXCEPT !.messages = Append(@, [role |-> role, content |-> content]),
              !.msg_ctx = @ \cup {Context(r)}]

CURSOR == <<"|">>

Markdown(r, text) == [r EXCEPT !.placeholder_log = Append(@, text)]

\* lines 257-266: "full", "single" or "none"
ContextBranch(r) ==
    IF Truthy(r.repo_code_full) THEN "full"
    ELSE IF Truthy(r.code_content) /\ Truthy(r.selected_file_path)
         THEN "single"
    ELSE "none"

\* the loop with line 290 assigning the chunk's text instead of adding it
RECURSIVE StreamLoop_replaces(_, _, _)
StreamLoop_replaces(r, chunks, full_response_text) ==
    IF chunks = <<>> THEN [run |-> r, text |-> full_response_text]
    ELSE LET chunk == Head(chunks)
         IN IF chunk.parts
            THEN StreamLoop_replaces(
                    Markdown(r, chunk.text \o CURSOR),
                    Tail(chunks), chunk.text)
            ELSE StreamLoop_replaces(r, Tail(chunks), full_response_text)

\* lines 288-291: the result is [run, text]
RECURSIVE StreamLoop(_, _, _)
StreamLoop(r, chunks, full_response_text) ==
    IF chunks = <<>> THEN [run |-> r, text |-> full_response_text]
    ELSE LET chunk == Head(chunks)
         IN IF chunk.parts
            THEN StreamLoop(
                    Markdown(r, full_response_text \o chunk.text \o CURSOR),
                    Tail(chunks), full_response_text \o chunk.text)
            ELSE StreamLoop(r, Tail(chunks), full_response_text)

ErrorText(gen) ==
    <<"Sorry, I encountered an error during generation: ", gen.error>>

\* lines 294-297
GenerationFailed(r, gen) ==
    Markdown(Show(r, "error: Gemini API"), ErrorText(gen))

\* the turn without line 299 on the failure path: nothing is committed
\* when generation fails
AssistantTurn_silent_on_error(r, gen) ==
    IF gen.fail = "configure" THEN GenerationFailed(r, gen)
    ELSE IF ContextBranch(r) = "none"
    THEN Show(r, "error: no code context")
    ELSE IF gen.fail = "request" THEN GenerationFailed(r, gen)
    ELSE LET loop == StreamLoop(r, gen.chunks, <<>>)
         IN IF gen.fail = "stream"
            THEN GenerationFailed(loop.run, gen)
            ELSE AppendMessage(Markdown(loop.run, loop.text),
                               "assistant", loop.text)

\* the turn without line 296: a failing stream commits the partial answer
AssistantTurn_commits_partial(r, gen) ==
    IF gen.fail = "configure"
    THEN AppendMessage(GenerationFailed(r, gen), "assistant", ErrorText(gen))
    ELSE IF ContextBranch(r) = "none"
    THEN Show(r, "error: no code context")
    ELSE IF gen.fail = "request"
    THEN AppendMessage(GenerationFailed(r, gen), "assistant", ErrorText(gen))
    ELSE LET loop == StreamLoop(r, gen.chunks, <<>>)
         IN IF gen.fail = "stream"
            THEN AppendMessage(GenerationFailed(loop.run, gen),
                               "assistant", loop.text)
            ELSE AppendMessage(Markdown(loop.run, loop.text),
                               "assistant", loop.text)

\* lines 250-299; gen.fail names the call that raises ("none": no call
\* does) and gen.chunks the chunks the stream yields before that
AssistantTurn(r, gen) ==
    IF gen.fail = "configure"
    THEN AppendMessage(GenerationFailed(r, gen), "assistant", ErrorText(gen))
    ELSE IF ContextBranch(r) = "none"
    THEN Show(r, "error: no code context")          \* st.stop()
    ELSE IF gen.fail = "request"
    THEN AppendMessage(GenerationFailed(r, gen), "assistant", ErrorText(gen))
    ELSE LET loop == StreamLoop(r, gen.chunks, <<>>)
         IN IF gen.fail = "stream"
            THEN AppendMessage(GenerationFailed(loop.run, gen),
                               "assistant", ErrorText(gen))
            ELSE AppendMessage(Markdown(loop.run, loop.text),
                               "assistant", loop.text)

\* lines 212-299; prompt is None when nothing was submitted
ChatSection(r, prompt, gen) ==
    LET r1 == ReadinessInfo(r)
    IN IF chat_ready(r) /\ Truthy(prompt)
       THEN AssistantTurn(AppendMessage(r1, "user", prompt), gen)
       ELSE r1

\* ---------------------------------------- "Clear All Loaded Data & Chat"
\* the reset with one key missing from the loop of line 207
clear_all_button_keeps_url(r) ==
    [k \in DOMAIN r |->
        IF k = "current_file_url_display" THEN r[k]
        ELSE IF k \in SessionKeys THEN default_values[k]
        ELSE IF k = "msg_ctx" THEN {} ELSE <<>>]

\* lines 206-209: every key is reset, then st.rerun() runs the script again
clear_all_button(r) ==
    [k \in DOMAIN r |->
        IF k \in SessionKeys THEN default_values[k]
        ELSE IF k = "msg_ctx" THEN {} ELSE <<>>]

\* ------------------------------------------------------------------ inputs
URL_A == GITHUB_PREFIX \o <<"a","/","r">>
URL_B == GITHUB_PREFIX \o <<"b","/","r",".","g","i","t">>
URL_DOTGIT == GITHUB_PREFIX \o <<"a","/",".","g","i","t">>
URL_NOSCHEME == <<"a","/","r">>

UrlInputs == {<<>>, URL_A, URL_B, URL_DOTGIT, URL_NOSCHEME}

NoJson == [id |-> 1]

MetaResponses ==
    {[ok |-> FALSE, json |-> NoJson],
     [ok |-> TRUE, json |-> NoJson],
     [ok |-> TRUE, json |-> [id |-> 1, default_branch |-> <<"main">>]],
     [ok |-> TRUE, json |-> [id |-> 1, default_branch |-> <<>>]]}

PATH_PY == <<"a",".","p","y">>
PATH_SPACE == <<"L"," ","M">>
PATH_DIR == <<"d">>

\* the entries of a repository tree, in the provider's order
RepoTree ==
    <<[path |-> PATH_SPACE, type |-> "blob"],
      [path |-> PATH_PY, type |-> "blob"],
      [path |-> PATH_DIR, type |-> "tree"]>>

\* tree listings: the first n entries of RepoTree, n <= MaxTree
TreeListings ==
    {SubSeq(RepoTree, 1, n) :
        n \in {k \in 0..MaxTree : k <= Len(RepoTree)}}

TreeResponses ==
    {[ok |-> FALSE, json |-> NoJson], [ok |-> TRUE, json |-> NoJson]}
    \cup {[ok |-> TRUE, json |-> [id |-> 1, tree |-> t]] : t \in TreeListings}

Bodies == {<<>>, <<"x">>}

BlobResponses ==
    {[ok |-> FALSE, text |-> <<>>]} \cup {[ok |-> TRUE, text |-> b] : b \in Bodies}

Prompts == {<<"q">>}

\* the i-th chunk of a stream: without parts, or with a text that tells
\* neighbouring chunks apart
ChunkAt(i, parts) ==
    [parts |-> parts,
     text |-> IF ~parts THEN <<>>
              ELSE IF i % 2 = 1 THEN <<"x">> ELSE <<"y">>]

ChunkSeqs ==
    UNION {{[i \in 1..n |-> ChunkAt(i, f[i])] : f \in [1..n -> BOOLEAN]} :
              n \in 0..MaxChunks}

GenError == "quota exceeded"

Generations ==
    {[fail |-> f, chunks |-> c, error |-> GenError] :
        f \in {"none", "stream"}, c \in ChunkSeqs}
    \cup {[fail |-> f, chunks |-> <<>>, error |-> GenError] :
            f \in {"configure", "request"}}

NoBlob == [ok |-> FALSE, text |-> <<>>]
NoGen == [fail |-> "none", chunks |-> <<>>, error |-> GenError]
NoResp == [ok |-> FALSE, json |-> NoJson]

\* -------------------------------------------------------------- script run
\* One execution of the script from line 136 on; r1 is the state the
\* "Load Repository Contents" block (lines 105-134) leaves.  inp gives the
\* widget values of the run (which button is pressed, the selector's
\* incoming value w, the submitted prompt) and the responses of the
\* services the run calls.
ScriptRun(r1, inp) ==
    LET r2 == AnalyzeCode(r1, repo_files, inp.click_full, inp.outcomes,
                          inp.w, inp.keep, inp.blob)
    IN IF inp.click_clear
       THEN ChatSection(clear_all_button(r2), None, NoGen)   \* st.rerun()
       ELSE ChatSection(r2, inp.prompt, inp.gen)

WidgetAfterRun(r1, inp) ==
    IF inp.click_clear THEN PLACEHOLDER
    ELSE WidgetAfter(r1, repo_files, inp.w, inp.keep)

\* a run in which nothing is pressed and the selector keeps its value
Idle ==
    [click_full |-> FALSE, outcomes |-> <<>>,
     w |-> select_single_file_sb, keep |-> TRUE, blob |-> NoBlob,
     click_clear |-> FALSE, prompt |-> None, gen |-> NoGen]

Commit(r1, inp, name) ==
    \E r \in {ScriptRun(r1, inp)} :
       /\ repo_owner' = r.repo_owner
       /\ repo_name' = r.repo_name
       /\ repo_files' = r.repo_files
       /\ selected_file_path' = r.selected_file_path
       /\ default_branch' = r.default_branch
       /\ code_content' = r.code_content
       /\ current_file_url_display' = r.current_file_url_display
       /\ repo_code_full' = r.repo_code_full
       /\ messages' = r.messages
       /\ msg_ctx' = r.msg_ctx
       /\ select_single_file_sb' = WidgetAfterRun(r1, inp)
       /\ act' = name
       /\ UNCHANGED <<gemini_api_key, call>>

\* the selector fetches a file in a run that reaches it in state r
SelectorFetches(r, click_full, w, keep) ==
    /\ r.repo_files # <<>>
    /\ LET sel == selectbox(repo_files, r.repo_files, w, keep)
       IN sel # PLACEHOLDER /\ (click_full \/ r.selected_file_path # sel)

BlobsFor(r, click_full, w, keep) ==
    IF SelectorFetches(r, click_full, w, keep) THEN BlobResponses
    ELSE {NoBlob}

UrlAccepted(url) ==
    url # <<>> /\ Truthy(parse_github_url(url)[1])
               /\ Truthy(parse_github_url(url)[2])

AcceptedUrls == {url \in UrlInputs : UrlAccepted(url)}

\* the responses a Load Repository run with this URL consumes
MetaFor(url) == IF url \in AcceptedUrls THEN MetaResponses ELSE {NoResp}

TreeFor(url, meta) ==
    IF url \in AcceptedUrls /\ Truthy(get_repo_default_branch(meta))
    THEN TreeResponses ELSE {NoResp}

KeepFor(r, w) ==
    IF w # PLACEHOLDER /\ w \in Options(r.repo_files)
       /\ Paths(r.repo_files) # Paths(repo_files)
    THEN BOOLEAN ELSE {TRUE}

\* no helper function is called on its own
NoCall == [fn |-> "none", arg |-> <<>>, ret |-> <<>>, done |-> TRUE]

\* ------------------------------------------------------------------ actions
Init ==
    /\ repo_owner = default_values.repo_owner
    /\ repo_name = default_values.repo_name
    /\ repo_files = default_values.repo_files
    /\ selected_file_path = default_values.selected_file_path
    /\ default_branch = default_values.default_branch
    /\ code_content = default_values.code_content
    /\ current_file_url_display = default_values.current_file_url_display
    /\ repo_code_full = default_values.repo_code_full
    /\ messages = default_values.messages
    /\ select_single_file_sb = PLACEHOLDER
    /\ gemini_api_key \in {None, <<"key">>}
    /\ msg_ctx = {}
    /\ act = "start"
    /\ call = NoCall

LoadRepository ==
    \E url \in UrlInputs :
    \E meta \in MetaFor(url) :
    \E tree \in TreeFor(url, meta) :
    \E r1 \in {load_repo_button(Run, url, meta, tree)} :
    \E keep \in KeepFor(r1, select_single_file_sb) :
    \E blob \in BlobsFor(r1, FALSE, select_single_file_sb, keep) :
        Commit(r1, [Idle EXCEPT !.keep = keep, !.blob = blob], "load_repo")

LoadFullRepositoryCode ==
    /\ repo_files # <<>>
    /\ \E outcomes \in [1..Len(repo_files) -> BlobResponses] :
       \E blob \in BlobsFor(Run, TRUE, select_single_file_sb, TRUE) :
          Commit(Run, [Idle EXCEPT !.click_full = TRUE,
                                   !.outcomes = outcomes, !.blob = blob],
                 "load_full")

SelectFile ==
    /\ repo_files # <<>>
    /\ \E p \in Options(repo_files) \ {PLACEHOLDER, select_single_file_sb} :
       \E blob \in BlobsFor(Run, FALSE, p, TRUE) :
          Commit(Run, [Idle EXCEPT !.w = p, !.blob = blob], "select")

DeselectFile ==
    /\ repo_files # <<>>
    /\ select_single_file_sb # PLACEHOLDER
    /\ Commit(Run, [Idle EXCEPT !.w = PLACEHOLDER], "deselect")

ClearAll ==
    \E blob \in BlobsFor(Run, FALSE, select_single_file_sb, TRUE) :
        Commit(Run, [Idle EXCEPT !.click_clear = TRUE, !.blob = blob],
               "clear_all")

AskQuestion ==
    /\ chat_ready(Run)
    /\ Len(messages) < 2 * MaxTurns
    /\ \E prompt \in Prompts, gen \in Generations :
       \E blob \in BlobsFor(Run, FALSE, select_single_file_sb, TRUE) :
          Commit(Run, [Idle EXCEPT !.prompt = prompt, !.gen = gen,
                                   !.blob = blob],
                 "ask")

Next ==
    \/ LoadRepository
    \/ LoadFullRepositoryCode
    \/ SelectFile
    \/ DeselectFile
    \/ ClearAll
    \/ AskQuestion

Spec == Init /\ [][Next]_vars

\* ------------------------------------------- helper functions on their own
\* The helper functions of lines 15-69 applied to arguments of their own
\* choosing: the initial state holds the argument, the action is the call.
HTTP_PREFIX ==
    <<"h","t","t","p",":","/","/","g","i","t","h","u","b",".","c","o","m","/">>

UrlPrefixes == {GITHUB_PREFIX, HTTP_PREFIX, <<"x">> \o GITHUB_PREFIX, <<>>}

UrlOwners == {<<>>, <<"a">>, <<"o","r","g">>}

NAME_IO == <<"r",".","g","i","t","h","u","b",".","i","o">>

UrlNames ==
    {<<>>, <<"r">>, <<"r">> \o DOT_GIT, DOT_GIT, NAME_IO,
     <<"r">> \o DOT_GIT \o DOT_GIT, DOT_GIT \o <<"r">>}

UrlTails == {<<>>, <<"/">>, <<"/","t">>, <<"/","t">> \o DOT_GIT}

ParseInputs ==
    {pre \o own : pre \in UrlPrefixes, own \in UrlOwners}
    \cup {pre \o own \o <<"/">> \o nm \o tl :
            pre \in UrlPrefixes, own \in UrlOwners,
            nm \in UrlNames, tl \in UrlTails}

README == <<"R","E","A","D","M","E">>

ExtensionInputs ==
    {README,
     <<"M","a","k","e","f","i","l","e">>,
     <<"a",".","p","y">>,
     <<"a",".","t","a","r",".","g","z">>,
     <<"s","r","c","/","a",".","p","y">>,
     <<"v","1",".","2","/">> \o README,
     <<".","e","n","v">>,
     <<"a",".","p","y","?","r","a","w","=","1">>,
     README \o <<"?","v","=","1",".","2">>}

EntryKinds == {"blob", "tree", "commit", "untyped"}

\* the i-th entry of a listing; an "untyped" entry has no "type" key
EntryAt(i, kind) ==
    IF kind = "untyped" THEN [path |-> [j \in 1..i |-> "p"]]
    ELSE [path |-> [j \in 1..i |-> "p"], type |-> kind]

EntryListings ==
    UNION {{[i \in 1..n |-> EntryAt(i, f[i])] : f \in [1..n -> EntryKinds]} :
              n \in 0..MaxEntries}

TreeInputs ==
    {[ok |-> FALSE, json |-> NoJson], [ok |-> TRUE, json |-> NoJson]}
    \cup {[ok |-> o, json |-> [id |-> 1, tree |-> t]] :
            o \in BOOLEAN, t \in EntryListings}

Calling(fn, arg) == [fn |-> fn, arg |-> arg, ret |-> <<>>, done |-> FALSE]

Returned(fn) == call.fn = fn /\ call.done

HelperInit ==
    /\ repo_owner = default_values.repo_owner
    /\ repo_name = default_values.repo_name
    /\ repo_files = default_values.repo_files
    /\ selected_file_path = default_values.selected_file_path
    /\ default_branch = default_values.default_branch
    /\ code_content = default_values.code_content
    /\ current_file_url_display = default_values.current_file_url_display
    /\ repo_code_full = default_values.repo_code_full
    /\ messages = default_values.messages
    /\ select_single_file_sb = PLACEHOLDER
    /\ gemini_api_key = None
    /\ msg_ctx = {}
    /\ act = "start"
    /\ \/ \E url \in ParseInputs : call = Calling("parse_github_url", url)
       \/ \E p \in ExtensionInputs : call = Calling("get_file_extension", p)
       \/ \E resp \in TreeInputs : call = Calling("get_repo_files", resp)

Return(value) ==
    /\ call' = [call EXCEPT !.ret = value, !.done = TRUE]
    /\ UNCHANGED <<repo_owner, repo_name, repo_files, selected_file_path,
                   default_branch, code_content, current_file_url_display,
                   repo_code_full, messages, select_single_file_sb,
                   gemini_api_key, msg_ctx, act>>

CallParseGithubUrl ==
    /\ call.fn = "parse_github_url" /\ ~call.done
    /\ Return(parse_github_url(call.arg))

CallGetFileExtension ==
    /\ call.fn = "get_file_extension" /\ ~call.done
    /\ Return(get_file_extension(call.arg))

CallGetRepoFiles ==
    /\ call.fn = "get_repo_files" /\ ~call.done
    /\ Return(get_repo_files(call.arg))

HelperNext ==
    \/ CallParseGithubUrl
    \/ CallGetFileExtension
    \/ CallGetRepoFiles

HelperSpec == HelperInit /\ [][HelperNext]_vars

\* ======================================================== checked claims
Last(seq) == seq[Len(seq)]

SessionNow == Session(Run)

\* a question is submitted with this prompt and generation outcome
Ask(prompt, gen) == [Idle EXCEPT !.prompt = prompt, !.gen = gen]

\* C1: between any two user actions at most one of the single-file context
\* (code_content) and the full-repository context (repo_code_full) is
\* populated.
C1_OneContextAtMost == ~(code_content # None /\ repo_code_full # None)

\* C1 witness: a file was selected and fetched; the single-file context is
\* the only one populated.
C1_Witness ==
    act = "select" /\ code_content # None /\ repo_code_full = None

\* C2: Load Full Repository Code pressed while a single file is the active
\* context ends with the single-file context and selection unset, the
\* full-repository context populated and the transcript empty; selecting
\* a file while the full-repository context is active ends with the
\* full-repository context unset, the single-file context populated unless
\* the fetch failed, and the transcript empty.
C2_SwitchClearsOtherMode ==
    [][/\ (act' = "load_full" /\ code_content # None)
            => /\ code_content' = None
               /\ selected_file_path' = None
               /\ repo_code_full' # None
               /\ messages' = <<>>
       /\ (act' = "select" /\ repo_code_full # None)
            => /\ repo_code_full' = None
               /\ (code_content' # None \/ selected_file_path' = None)
               /\ messages' = <<>>]_vars

\* C3: after every action that changes code_content, repo_code_full or
\* selected_file_path the transcript is empty.
C3_ContextChangeClearsTranscript ==
    [][<<code_content, repo_code_full, selected_file_path>>'
          # <<code_content, repo_code_full, selected_file_path>>
       => messages' = <<>>]_vars

\* C4: while chat is ready, every message of the transcript was appended
\* under the context the session holds now.
C4_TranscriptScopedToContext ==
    chat_ready(Run) => msg_ctx \subseteq {Context(Run)}

Alternating(msgs) ==
    /\ Len(msgs) % 2 = 0
    /\ \A i \in 1..Len(msgs) :
          msgs[i].role = IF i % 2 = 1 THEN "user" ELSE "assistant"

ExpectedBlock(i, outcomes) ==
    IF outcomes[i].ok
    THEN FileBlock(repo_files[i].path, outcomes[i].text)
    ELSE ErrorBlock(repo_files[i].path)

\* C6: for every file list and every assignment of fetch outcomes, Load
\* Full Repository Code fetches each file once in list order and assembles
\* one block per file in list order, the failure placeholder exactly for
\* the files whose fetch failed and a fenced block with the body for every
\* file whose fetch returned a body, of any length.
C6_BulkLoadBlocks ==
    \A outcomes \in [1..Len(repo_files) -> BlobResponses] :
        repo_files # <<>> =>
            LET r == load_full_repo_button(Run, outcomes)
            IN /\ r.requests =
                    [i \in 1..Len(repo_files) |->
                        [url |-> RawUrl(Run, repo_files[i].path),
                         ok |-> outcomes[i].ok,
                         text |-> outcomes[i].text]]
               /\ r.repo_code_full =
                    Join([i \in 1..Len(repo_files) |->
                            ExpectedBlock(i, outcomes)])

\* C7: when generation fails at configuration, at request construction or
\* in the stream, the turn appends the user message and one assistant
\* message whose content is the error text that was displayed, and no
\* session field other than messages changes.
C7_GenerationFailureCommitted ==
    chat_ready(Run) =>
        \A prompt \in Prompts :
        \A gen \in {g \in Generations : g.fail # "none"} :
            LET r == ScriptRun(Run, Ask(prompt, gen))
            IN /\ r.messages =
                    messages \o <<[role |-> "user", content |-> prompt],
                                  [role |-> "assistant",
                                   content |-> ErrorText(gen)]>>
               /\ r.placeholder_log # <<>>
               /\ Last(r.placeholder_log) = Last(r.messages).content
               /\ \E i \in 1..Len(r.shown) : r.shown[i] = "error: Gemini API"
               /\ \A k \in SessionKeys \ {"messages"} : r[k] = SessionNow[k]

\* C7 witness: a question was asked and the assistant message is the
\* error text.
C7_Witness ==
    /\ act = "ask"
    /\ messages # <<>>
    /\ Last(messages) = [role |-> "assistant", content |-> ErrorText(NoGen)]

LoadFails(meta, tree) ==
    \/ ~Truthy(get_repo_default_branch(meta))
    \/ ~get_repo_files(tree).ok

\* C8: Load Repository with a well-formed URL whose metadata request or
\* tree request fails leaves every session field as it was.
C8_FailedLoadChangesNothing ==
    \A url \in AcceptedUrls, meta \in MetaResponses, tree \in TreeResponses :
        LoadFails(meta, tree) =>
            Session(load_repo_button(Run, url, meta, tree)) = SessionNow

ValidationMessages ==
    {<<"warning: enter a repository URL">>, <<"error: invalid URL format">>}

C10_ClearAllResets ==
    /\ act = "clear_all"
          => SessionNow = default_values /\ ~chat_ready(Run)
    /\ \A blob \in BlobResponses :
          LET r == ScriptRun(Run, [Idle EXCEPT !.click_clear = TRUE,
                                               !.blob = blob])
          IN /\ Session(r) = default_values
             /\ ~chat_ready(r)
             /\ Session(clear_all_button(r)) = Session(r)

\* C10 witness: Clear All ran in a process that has an API key.
C10_Witness == act = "clear_all" /\ Truthy(gemini_api_key)

\* s without the suffix suf, when s ends with it
StripSuffix(s, suf) ==
    IF Len(s) >= Len(suf) /\ SubSeq(s, Len(s) - Len(suf) + 1, Len(s)) = suf
    THEN SubSeq(s, 1, Len(s) - Len(suf))
    ELSE s

NoSlash(s, from, to) == \A k \in from..to : s[k] # "/"

\* url is https://github.com/ + o characters of owner + "/" + n characters
\* of name, and ends there or goes on with "/"
RepoUrlForm(url, o, n) ==
    LET a == Len(GITHUB_PREFIX)
    IN /\ HasPrefix(url, GITHUB_PREFIX)
       /\ o >= 1 /\ n >= 1 /\ a + o + 1 + n <= Len(url)
       /\ NoSlash(url, a + 1, a + o)
       /\ url[a + o + 1] = "/"
       /\ NoSlash(url, a + o + 2, a + o + 1 + n)
       /\ (a + o + 1 + n = Len(url) \/ url[a + o + 2 + n] = "/")

\* the pair the claim C11 expects
ExpectedParse(url) ==
    LET a == Len(GITHUB_PREFIX)
        forms == {on \in (1..Len(url)) \X (1..Len(url)) :
                     RepoUrlForm(url, on[1], on[2])}
    IN IF forms = {} THEN <<None, None>>
       ELSE LET on == CHOOSE x \in forms : TRUE
            IN <<SubSeq(url, a + 1, a + on[1]),
                 StripSuffix(SubSeq(url, a + on[1] + 2, a + on[1] + 1 + on[2]),
                             DOT_GIT)>>

\* C11: parse_github_url returns, for every string of the form
\* https://github.com/<owner>/<name> with or without further path segments,
\* the owner and the name with only a trailing .git removed (a name that
\* contains .git elsewhere is returned whole), and the no-match pair
\* (None, None) for every other string.
C11_ParseReturnsOwnerAndName ==
    Returned("parse_github_url") => call.ret = ExpectedParse(call.arg)

\* the tag the claim C12 expects for a path
ExpectedExtension(p) ==
    LET q == SplitFirst(p, <<"?">>)
        base == SubSeq(q, LastIndexOf(q, "/") + 1, Len(q))
        dot == LastIndexOf(base, ".")
    IN IF dot > 1 /\ dot < Len(base)
       THEN SubSeq(base, dot + 1, Len(base))
       ELSE <<"plaintext">>

\* C12: get_file_extension returns the text after the last '.' of the path,
\* query string removed, when the path has an extension and "plaintext"
\* when it has none, so the language tag that opens the fenced block of a
\* file is never empty.
C12_ExtensionOrPlaintext ==
    Returned("get_file_extension") =>
        /\ call.ret = ExpectedExtension(call.arg)
        /\ call.ret # <<>>
        /\ FileBlock(call.arg, <<"x">>)[Len(call.arg) + 3] # "<NL>"

\* the k-th smallest element of a set of numbers
RECURSIVE Nth(_, _)
Nth(S, k) ==
    LET m == CHOOSE x \in S : \A y \in S : x <= y
    IN IF k = 1 THEN m ELSE Nth(S \ {m}, k - 1)

\* C13: for every successful tree response whose entries all carry a type,
\* get_repo_files returns exactly the entries of type blob in the
\* response's order: none dropped, none other kept, none reordered; for a
\* transport or parse error, or an entry that cannot be read, it returns
\* the failed value and never a partial list.
C13_BlobsInOrder ==
    Returned("get_repo_files") =>
        LET resp == call.arg
            tree == IF "tree" \in DOMAIN resp.json THEN resp.json.tree
                    ELSE <<>>
            typed == \A i \in 1..Len(tree) : "type" \in DOMAIN tree[i]
            blobs == {i \in 1..Len(tree) : typed /\ tree[i].type = "blob"}
        IN IF resp.ok /\ typed
           THEN /\ call.ret.ok
                /\ Len(call.ret.files) = Cardinality(blobs)
                /\ \A k \in 1..Len(call.ret.files) :
                      call.ret.files[k] = tree[Nth(blobs, k)]
           ELSE ~call.ret.ok /\ call.ret.files = <<>>

\* C13 witness: a listing with a blob, a non-blob and another blob after it
\* was filtered to the two blobs.
C13_Witness ==
    /\ Returned("get_repo_files")
    /\ call.arg.ok /\ "tree" \in DOMAIN call.arg.json
    /\ Len(call.arg.json.tree) = 3
    /\ \A i \in 1..3 : "type" \in DOMAIN call.arg.json.tree[i]
    /\ call.arg.json.tree[1].type = "blob"
    /\ call.arg.json.tree[2].type = "tree"
    /\ call.arg.json.tree[3].type = "blob"
    /\ Len(call.ret.files) = 2

IsPrefix(a, b) == Len(a) <= Len(b) /\ SubSeq(b, 1, Len(a)) = a

HasParts(chunk) == chunk.parts

\* the streams of up to MaxStream chunks that end without an error
CompleteStreams ==
    UNION {{[i \in 1..n |-> ChunkAt(i, f[i])] : f \in [1..n -> BOOLEAN]} :
              n \in 0..MaxStream}

TextOf(chunks) == Join([i \in 1..Len(chunks) |-> chunks[i].text])

\* C14: in a successful generation every partial buffer shown is a prefix
\* of the final answer and extends the one shown before it, one per chunk
\* that carries text, in arrival order; the turn commits exactly one
\* assistant message, after the last chunk, and its content is the
\* concatenation of the text of all chunks in order.
C14_StreamingCommit ==
    chat_ready(Run) =>
        \A prompt \in Prompts, chunks \in CompleteStreams :
            \A r \in {ScriptRun(Run, Ask(prompt,
                        [fail |-> "none", chunks |-> chunks,
                         error |-> GenError]))} :
            LET log == r.placeholder_log
                final == TextOf(chunks)
                texts == SelectSeq(chunks, HasParts)
                partial(i) == SubSeq(log[i], 1, Len(log[i]) - 1)
            IN /\ r.messages =
                    messages \o <<[role |-> "user", content |-> prompt],
                                  [role |-> "assistant", content |-> final]>>
               /\ Len(log) = Len(texts) + 1
               /\ Last(log) = final
               /\ \A i \in 1..Len(texts) :
                     /\ log[i] = TextOf(SubSeq(texts, 1, i)) \o CURSOR
                     /\ IsPrefix(partial(i), final)
                     /\ i > 1 => /\ IsPrefix(partial(i - 1), partial(i))
                                 /\ Len(partial(i - 1)) < Len(partial(i))

\* C14 witness: a question was answered from a stream over the full
\* repository context, and a stream of three chunks with text would be
\* committed as their concatenation.
C14_Witness ==
    /\ act = "ask" /\ chat_ready(Run) /\ repo_code_full # None
    /\ Len(messages) = 2 /\ messages[2].content = <<"x">>
    /\ \E chunks \in CompleteStreams :
          /\ Len(SelectSeq(chunks, HasParts)) = 3
          /\ Last(ScriptRun(Run, Ask(<<"q">>,
                    [fail |-> "none", chunks |-> chunks,
                     error |-> GenError])).messages).content
                = <<"x", "y", "x">>

\* the last fetch of the file the selector holds has failed
SelectedFetchFailed ==
    /\ repo_files # <<>>
    /\ select_single_file_sb # PLACEHOLDER
    /\ selected_file_path = None

\* C15: after a single-file fetch has failed, a later run in which the
\* user selects nothing new fetches that file no more and clears nothing:
\* a run that only re-executes the script issues no request and changes no
\* session field, and Load Full Repository Code issues the bulk load's
\* requests only and ends with the full-repository context populated.
C15_FailedFetchNotRetried ==
    SelectedFetchFailed =>
        \A blob \in BlobResponses :
            /\ LET r == ScriptRun(Run, [Idle EXCEPT !.blob = blob])
               IN r.requests = <<>> /\ Session(r) = SessionNow
            /\ \A outcomes \in [1..Len(repo_files) -> BlobResponses] :
                  LET r == ScriptRun(Run, [Idle EXCEPT !.click_full = TRUE,
                                                       !.outcomes = outcomes,
                                                       !.blob = blob])
                  IN /\ Len(r.requests) = Len(repo_files)
                     /\ r.repo_code_full # None
                     /\ r.code_content = None

\* metadata responses that failed: no body, or an error status with a body
FailedMeta ==
    {[ok |-> FALSE, json |-> NoJson],
     [ok |-> FALSE, json |-> [id |-> 1, default_branch |-> <<"main">>]]}

\* C16: when the metadata request succeeds with a body that has no
\* default_branch field, the branch resolves to "main" and Load Repository
\* goes on to request the tree of "main"; when the metadata request fails,
\* the result is the failed value, no tree request is issued and the run
\* leaves the file list as it was.
C16_BranchResolution ==
    \A url \in AcceptedUrls :
        LET owner == parse_github_url(url)[1]
            repo == parse_github_url(url)[2]
            bare == [ok |-> TRUE, json |-> NoJson]
        IN /\ get_repo_default_branch(bare) = <<"main">>
           /\ \A tree \in TreeResponses :
              \A r \in {load_repo_button(Run, url, bare, tree)} :
                 /\ Len(r.requests) = 2
                 /\ r.requests[1].url = MetaUrl(owner, repo)
                 /\ r.requests[2].url = TreeUrl(owner, repo, <<"main">>)
                 /\ r.default_branch = <<"main">>
                 /\ get_repo_files(tree).ok
                       => r.repo_files = get_repo_files(tree).files
           /\ \A meta \in FailedMeta :
                 /\ get_repo_default_branch(meta) = None
                 /\ \A tree \in TreeResponses :
                    \A f \in {load_repo_button(Run, url, meta, tree)} :
                       /\ f.requests = <<[url |-> MetaUrl(owner, repo),
                                          ok |-> FALSE, text |-> <<>>]>>
                       /\ f.repo_files = repo_files
                       /\ tree = NoResp =>
                             \A blob \in BlobResponses :
                                ScriptRun(f, [Idle EXCEPT !.blob = blob])
                                   .repo_files = repo_files

\* C16 witness: Load Repository of a/r resolved the branch "main" and
\* listed the files of its tree, as a run with field-less metadata does.
C16_Witness ==
    /\ act = "load_repo" /\ repo_owner = <<"a">>
    /\ default_branch = <<"main">> /\ Len(repo_files) = 2
    /\ Session(load_repo_button(Run, URL_A, [ok |-> TRUE, json |-> NoJson],
                   [ok |-> TRUE,
                    json |-> [id |-> 1, tree |-> SubSeq(RepoTree, 1, 2)]]))
          = SessionNow

\* the display URLs of a path in the repositories the model loads
DisplayUrlsOf(path) ==
    {DisplayUrl([repo_owner |-> parse_github_url(url)[1],
                 repo_name |-> parse_github_url(url)[2],
                 default_branch |-> <<"main">>], path) : url \in AcceptedUrls}

NO_CONTEXT == "error: no code context"

\* C17: whenever code_content is populated, selected_file_path is populated
\* and current_file_url_display is the display URL of that path; so in
\* every state where chat is ready one of the two context branches of the
\* answer generator applies, and no question ends in the "No code context
\* available" stop that leaves a user message without a reply.
C17_ContentImpliesSelection ==
    /\ Truthy(code_content) =>
          /\ Truthy(selected_file_path)
          /\ current_file_url_display \in DisplayUrlsOf(selected_file_path)
    /\ code_content # None => Truthy(code_content)
    /\ chat_ready(Run) =>
          /\ ContextBranch(Run) \in {"full", "single"}
          /\ \A prompt \in Prompts, gen \in Generations :
                \A r \in {ScriptRun(Run, Ask(prompt, gen))} :
                   /\ \A i \in 1..Len(r.shown) : r.shown[i] # NO_CONTEXT
                   /\ Last(r.messages).role = "assistant"

\* C17 witness: a question was asked and answered with a single file as
\* the context.
C17_Witness ==
    /\ act = "ask" /\ ContextBranch(Run) = "single"
    /\ Truthy(code_content) /\ Truthy(selected_file_path)
    /\ Len(messages) = 2

Populated(x) == x \notin {None, <<>>}

\* the condition the claim C18 puts on a context: a repository is loaded
\* and one of the two code contexts is populated
Gated(c) ==
    /\ Populated(gemini_api_key)
    /\ Populated(c.repo_owner)
    /\ (Populated(c.code_content) \/ Populated(c.repo_code_full))

\* C18: messages grows only by a question accepted in a state where the
\* API key is configured, a repository is loaded and one of code_content
\* and repo_code_full is populated; in every other state a run appends
\* nothing and calls no generation, and where a question is accepted the
\* context handed to the generator is not empty.
C18_ChatGating ==
    /\ messages # <<>> => msg_ctx # {}
    /\ \A c \in msg_ctx : Gated(c)
    /\ ~Gated(Context(Run)) =>
          \A prompt \in Prompts, gen \in Generations :
             LET r == ChatSection(Run, prompt, gen)
             IN r.messages = messages /\ r.placeholder_log = <<>>
    /\ Gated(Context(Run)) =>
          \/ Populated(repo_code_full)
          \/ Populated(code_content) /\ Populated(selected_file_path)

\* C18 witness: with a key configured and the full repository loaded, a
\* question was accepted and the generator answered with nothing.
C18_Witness ==
    /\ act = "ask" /\ Gated(Context(Run))
    /\ msg_ctx = {Context(Run)}
    /\ Len(messages) = 2 /\ messages[2].content = <<>>

\* C19: from every state, a run in which Load Repository fetches the
\* branch and the tree ends with the file list equal to the blob list of
\* the new tree, no file selected, both contexts unset and the transcript
\* empty, so chat is not ready.
C19_LoadRepositoryResets ==
    \A url \in AcceptedUrls, meta \in MetaResponses, tree \in TreeResponses :
        ~LoadFails(meta, tree) =>
            LET r1 == load_repo_button(Run, url, meta, tree)
            IN \A keep \in KeepFor(r1, select_single_file_sb) :
               \A blob \in BlobsFor(r1, FALSE, select_single_file_sb, keep) :
                  LET r == ScriptRun(r1, [Idle EXCEPT !.keep = keep,
                                                      !.blob = blob])
                  IN /\ r.repo_files = get_repo_files(tree).files
                     /\ r.selected_file_path = None
                     /\ r.code_content = None
                     /\ r.repo_code_full = None
                     /\ r.messages = <<>>
                     /\ ~chat_ready(r)

====
